---- MODULE Spec2Model ----
(***************************************************************************)
(* PostgresManager (postgres_da_ai_agent/modules/db.py): one manager that  *)
(* owns a psycopg2 connection and cursor, runs SQL and introspects the     *)
(* foreign tables of schema 'akeyless'.                                    *)
(*                                                                         *)
(* Handles: 0 stands for None, k > 0 for the k-th connection (cursor) the  *)
(* driver handed out.  Text is the sequence of its pieces: every ',' and   *)
(* every newline written by the code is a piece of its own, the values     *)
(* substituted by format() are one piece each (identifiers and the output  *)
(* of format_type, which are non-empty and end in neither ',' nor newline).*)
(***************************************************************************)
EXTENDS Naturals, Sequences, FiniteSets

VARIABLES
    conn,       \* self.conn
    cur,        \* self.cur
    connOpen,   \* connOpen[k]: the k-th connection handed out is open
    curOpen,    \* curOpen[k]: the k-th cursor handed out has not been closed
    curConn,    \* curConn[k]: the connection the k-th cursor was made from
    scope,      \* "out" | "in": position of the caller relative to a with-block
    raised,     \* error raised by the block of the current/last with ("none")
    observed,   \* error the caller saw after the last with statement ("none")
    lastOp,     \* the operation performed last
    prevOp,     \* the operation performed before it
    args,       \* the arguments of the last operation
    outcome,    \* "ok" or the error the last operation raised
    result,     \* the value the last operation returned (<<>> when it raised)
    tables,     \* catalog: foreign_table_name rows of schema akeyless, server order
    attrs,      \* catalog: per foreign table its (attname, format_type) in attnum order
    incoming,   \* catalog: per table the rows matching the incoming lookup
    outgoing    \* catalog: per table the rows matching the outgoing lookup

vars == <<conn, cur, connOpen, curOpen, curConn, scope, raised, observed,
          lastOp, prevOp, args, outcome, result, tables, attrs, incoming, outgoing>>

handles == <<conn, cur>>
driver  == <<connOpen, curOpen, curConn>>
catalog == <<tables, attrs, incoming, outgoing>>
scoping == <<scope, raised, observed>>

----------------------------------------------------------------------------
\* Bounds

MaxConns == 2      \* connections the driver hands out in one behaviour
MaxCols  == 2      \* columns per foreign table
MaxRel   == 3      \* rows the relation lookups match in all
MaxN     == 2      \* largest limit n passed to get_related_tables
MaxList  == 2      \* longest table_list passed to get_related_tables

TableNames == {"a", "b"}               \* foreign tables that may exist
NameInputs == {"a", "b", "c"}          \* names a caller may pass
NameOrder  == <<"a", "b", "c">>        \* collation used by ORDER BY
ColPool    == <<"x", "y", "z", "w">>
ColNames   == {ColPool[i] : i \in 1..MaxCols}
ColTypes   == {"integer", "numeric(10,2)"}
SqlInputs  == {"select", "select_none", "insert", "bad"}

None == 0

----------------------------------------------------------------------------
\* Generic helpers

SeqsUpTo(S, n) == UNION {[1..k -> S] : k \in 0..n}

Distinct(s) == \A i, j \in 1..Len(s) : s[i] = s[j] => i = j

Range(s) == {s[i] : i \in 1..Len(s)}

\* every ordering of a finite set: iteration order of a Python set
Orderings(S) == {s \in [1..Cardinality(S) -> S] : Distinct(s)}

RECURSIVE Concat(_)
Concat(ss) == IF ss = <<>> THEN <<>> ELSE Head(ss) \o Concat(Tail(ss))

Rank(name) == CHOOSE i \in 1..Len(NameOrder) : NameOrder[i] = name

----------------------------------------------------------------------------
\* Driver state

\* cursor.closed in psycopg2: the cursor was closed or its connection was
CursorValid(c) == curOpen[c] /\ connOpen[curConn[c]]

\* variant: an absent cursor is tolerated instead of raising
ExecuteError_ignore ==
    IF cur # None /\ ~CursorValid(cur) THEN "InterfaceError" ELSE "ok"

\* what self.cur.execute(...) raises before a statement reaches the server
ExecuteError ==
    IF cur = None THEN "AttributeError"
    ELSE IF ~CursorValid(cur) THEN "InterfaceError"
    ELSE "ok"

Record(op, a, o, r) ==
    /\ prevOp' = lastOp
    /\ lastOp' = op
    /\ args' = a
    /\ outcome' = o
    /\ result' = r

\* no operation other than __exit__ runs once the block has raised
Running == raised = "none"

----------------------------------------------------------------------------
\* Lifecycle

InitManager ==
    /\ conn = None
    /\ cur = None
    /\ connOpen = <<>>
    /\ curOpen = <<>>
    /\ curConn = <<>>
    /\ scope = "out"
    /\ raised = "none"
    /\ observed = "none"
    /\ lastOp = "__init__"
    /\ prevOp = "none"
    /\ args = <<>>
    /\ outcome = "ok"
    /\ result = <<>>

connect_with_url ==
    /\ Running
    /\ Len(connOpen) < MaxConns
    /\ \/ \* psycopg2.connect(url) raises: nothing is assigned
          /\ UNCHANGED <<handles, driver>>
          /\ Record("connect_with_url", <<>>, "OperationalError", <<>>)
       \/ \* the connection is stored, self.conn.cursor() raises
          /\ connOpen' = Append(connOpen, TRUE)
          /\ conn' = Len(connOpen) + 1
          /\ UNCHANGED <<cur, curOpen, curConn>>
          /\ Record("connect_with_url", <<>>, "CursorError", <<>>)
       \/ \* both statements succeed
          /\ connOpen' = Append(connOpen, TRUE)
          /\ conn' = Len(connOpen) + 1
          /\ curOpen' = Append(curOpen, TRUE)
          /\ curConn' = Append(curConn, Len(connOpen) + 1)
          /\ cur' = Len(curOpen) + 1
          /\ Record("connect_with_url", <<>>, "ok", <<>>)
    /\ UNCHANGED <<scoping, catalog>>

\* variant: the connection is never closed
Release_leak ==
    /\ curOpen' = IF cur # None THEN [curOpen EXCEPT ![cur] = FALSE] ELSE curOpen
    /\ UNCHANGED <<connOpen, conn, cur, curConn>>

\* the two guarded close() calls shared by close and __exit__
Release ==
    /\ curOpen' = IF cur # None THEN [curOpen EXCEPT ![cur] = FALSE] ELSE curOpen
    /\ connOpen' = IF conn # None THEN [connOpen EXCEPT ![conn] = FALSE] ELSE connOpen
    /\ UNCHANGED <<conn, cur, curConn>>

\* variant: close() calls self.cur.close() without testing self.cur
close_unguarded ==
    /\ Running
    /\ Release
    /\ Record("close", <<>>, IF cur = None THEN "AttributeError" ELSE "ok", <<>>)
    /\ UNCHANGED <<scoping, catalog>>

close ==
    /\ Running
    /\ Release
    /\ Record("close", <<>>, "ok", <<>>)
    /\ UNCHANGED <<scoping, catalog>>

__enter__ ==
    /\ scope = "out"
    /\ scope' = "in"
    /\ raised' = "none"
    /\ observed' = "none"
    /\ Record("__enter__", <<>>, "ok", <<>>)
    /\ UNCHANGED <<handles, driver, catalog>>

\* the block of the with statement raises: an error of its own, or the
\* error of the manager operation it just ran
BlockRaise ==
    /\ scope = "in"
    /\ Running
    /\ \E e \in {"BlockError"} \cup (IF outcome = "ok" THEN {} ELSE {outcome}) :
          raised' = e
    /\ UNCHANGED <<handles, driver, catalog, scope, observed,
                   lastOp, prevOp, args, outcome, result>>

\* variant: __exit__ returns a true value
ExitReturn_swallow == TRUE

\* __exit__ has no return statement: it returns None, which is false
ExitReturn == FALSE

__exit__ ==
    /\ scope = "in"
    /\ Release
    /\ scope' = "out"
    /\ observed' = IF ExitReturn THEN "none" ELSE raised
    /\ raised' = "none"
    /\ Record("__exit__", <<raised>>, "ok", <<>>)
    /\ UNCHANGED catalog

----------------------------------------------------------------------------
\* run_sql

\* Values a row can hold: [kind, repr (str(obj)), iso (obj.isoformat())]
IntVal  == [kind |-> "int",      repr |-> "1",                   iso |-> ""]
StrVal  == [kind |-> "str",      repr |-> "x",                   iso |-> ""]
TimeVal == [kind |-> "datetime", repr |-> "2024-01-02 03:04:05", iso |-> "2024-01-02T03:04:05"]
DecVal  == [kind |-> "Decimal",  repr |-> "1.50",                iso |-> ""]

\* cursor.description after execute(sql): column names, or "None" for a
\* statement that returns no rows
Description(sql) ==
    CASE sql = "select"      -> <<"id", "name", "ts", "amt">>
      [] sql = "select_none" -> <<"id", "name", "ts", "amt">>
      [] OTHER               -> "None"

FetchAll(sql) ==
    CASE sql = "select" -> << <<IntVal, StrVal, TimeVal, DecVal>>,
                              <<IntVal, StrVal, TimeVal, DecVal>> >>
      [] OTHER          -> <<>>

datetime_handler(obj) ==
    IF obj.kind = "datetime" THEN obj.iso ELSE obj.repr

\* dict(zip(columns, row)) as the ordered (key, value) pairs of the dict:
\* a repeated key keeps its first position and its last value
RECURSIVE DictZip(_, _, _)
DictZip(columns, row, acc) ==
    IF columns = <<>> \/ row = <<>> THEN acc
    ELSE LET k == Head(columns)
             v == Head(row)
             at == {i \in 1..Len(acc) : acc[i][1] = k}
         IN  DictZip(Tail(columns), Tail(row),
                     IF at = {} THEN Append(acc, <<k, v>>)
                     ELSE [i \in 1..Len(acc) |-> IF i \in at THEN <<k, v>> ELSE acc[i]])

Quoted(s) == <<"\"", s, "\"">>

\* one value as json.dumps writes it; default= is called for the kinds the
\* encoder does not know and its string result is written as a JSON string
JsonValue(v) ==
    CASE v.kind = "int" -> <<v.repr>>
      [] v.kind = "str" -> Quoted(v.repr)
      [] OTHER          -> Quoted(datetime_handler(v))

RECURSIVE JsonItems(_)
JsonItems(d) ==
    IF d = <<>> THEN <<>>
    ELSE <<"        ">> \o Quoted(d[1][1]) \o <<": ">> \o JsonValue(d[1][2])
         \o (IF Len(d) > 1 THEN <<",", "\n">> ELSE <<>>) \o JsonItems(Tail(d))

JsonDict(d) ==
    IF d = <<>> THEN <<"    ", "{}">>
    ELSE <<"    ", "{", "\n">> \o JsonItems(d) \o <<"\n", "    ", "}">>

RECURSIVE JsonList(_)
JsonList(l) ==
    IF l = <<>> THEN <<>>
    ELSE JsonDict(l[1]) \o (IF Len(l) > 1 THEN <<",", "\n">> ELSE <<>>) \o JsonList(Tail(l))

\* json.dumps(list_of_dicts, indent=4, default=self.datetime_handler)
JsonDumps(l) ==
    IF l = <<>> THEN <<"[]">>
    ELSE <<"[", "\n">> \o JsonList(l) \o <<"\n", "]">>

run_sql(sql) ==
    /\ Running
    /\ LET rows == FetchAll(sql)
           list_of_dicts == [i \in 1..Len(rows) |-> DictZip(Description(sql), rows[i], <<>>)]
       IN  IF ExecuteError # "ok"
             THEN Record("run_sql", <<sql>>, ExecuteError, <<>>)
           ELSE IF sql = "bad"
             THEN Record("run_sql", <<sql>>, "ProgrammingError", <<>>)
           ELSE IF Description(sql) = "None"
             THEN Record("run_sql", <<sql>>, "TypeError", <<>>)
           ELSE Record("run_sql", <<sql>>, "ok", JsonDumps(list_of_dicts))
    /\ UNCHANGED <<handles, driver, scoping, catalog>>

----------------------------------------------------------------------------
\* Table definitions

RECURSIVE SortByName(_)
SortByName(S) ==
    IF S = {} THEN <<>>
    ELSE LET m == CHOOSE x \in S : \A y \in S : Rank(x) <= Rank(y)
         IN  <<m>> \o SortByName(S \ {m})

\* the rows of one foreign table: schema_name, table_name, column_name,
\* column_type, column_description, in attnum order
TableRows(t) ==
    [i \in 1..Len(attrs[t]) |-> <<"akeyless", t, attrs[t][i][1], attrs[t][i][2], "">>]

\* variant: the statement filters on the table name passed
DefinitionRows_filtered(table_name) ==
    IF table_name \in Range(tables) THEN TableRows(table_name) ELSE <<>>

\* the rows get_def_stmt selects: every column of every foreign table of
\* schema akeyless, ordered by table name and attnum; the statement holds no
\* placeholder, so table_name takes no part in it
DefinitionRows(table_name) ==
    LET ordered == SortByName(Range(tables))
    IN  Concat([i \in 1..Len(ordered) |-> TableRows(ordered[i])])

\* variant: only the last character is stripped
rstrip_once(s, chars) ==
    IF s # <<>> /\ s[Len(s)] \in chars THEN SubSeq(s, 1, Len(s) - 1) ELSE s

\* str.rstrip(chars)
RECURSIVE rstrip(_, _)
rstrip(s, chars) ==
    IF s # <<>> /\ s[Len(s)] \in chars THEN rstrip(SubSeq(s, 1, Len(s) - 1), chars)
    ELSE s

RECURSIVE AppendColumns(_, _)
AppendColumns(stmt, rows) ==
    IF rows = <<>> THEN stmt
    ELSE AppendColumns(stmt \o <<Head(rows)[3], " ", Head(rows)[4], ",", "\n">>, Tail(rows))

create_table_stmt(table_name, rows) ==
    rstrip(AppendColumns(<<"CREATE TABLE ", table_name, " (", "\n">>, rows), {",", "\n"})
        \o <<"\n", ");">>

\* variant: the separator follows every item
RECURSIVE Join_trailing(_, _)
Join_trailing(sep, items) ==
    IF items = <<>> THEN <<>> ELSE items[1] \o sep \o Join_trailing(sep, Tail(items))

\* str.join
RECURSIVE Join(_, _)
Join(sep, items) ==
    IF items = <<>> THEN <<>>
    ELSE IF Len(items) = 1 THEN items[1]
    ELSE items[1] \o sep \o Join(sep, Tail(items))

AllTableNames == tables

Definitions(table_names) ==
    [i \in 1..Len(table_names) |->
        create_table_stmt(table_names[i], DefinitionRows(table_names[i]))]

get_table_definition(table_name) ==
    /\ Running
    /\ IF ExecuteError # "ok"
         THEN Record("get_table_definition", <<table_name>>, ExecuteError, <<>>)
       ELSE Record("get_table_definition", <<table_name>>, "ok",
                   create_table_stmt(table_name, DefinitionRows(table_name)))
    /\ UNCHANGED <<handles, driver, scoping, catalog>>

get_all_table_names ==
    /\ Running
    /\ IF ExecuteError # "ok"
         THEN Record("get_all_table_names", <<>>, ExecuteError, <<>>)
       ELSE Record("get_all_table_names", <<>>, "ok", AllTableNames)
    /\ UNCHANGED <<handles, driver, scoping, catalog>>

get_table_definitions_for_prompt ==
    /\ Running
    /\ IF ExecuteError # "ok"
         THEN Record("get_table_definitions_for_prompt", <<>>, ExecuteError, <<>>)
       ELSE Record("get_table_definitions_for_prompt", <<>>, "ok",
                   Join(<<"\n", "\n">>, Definitions(AllTableNames)))
    /\ UNCHANGED <<handles, driver, scoping, catalog>>

get_table_definition_map_for_embeddings ==
    /\ Running
    /\ IF ExecuteError # "ok"
         THEN Record("get_table_definition_map_for_embeddings", <<>>, ExecuteError, <<>>)
       ELSE Record("get_table_definition_map_for_embeddings", <<>>, "ok",
                   [t \in Range(AllTableNames) |->
                       create_table_stmt(t, DefinitionRows(t))])
    /\ UNCHANGED <<handles, driver, scoping, catalog>>

----------------------------------------------------------------------------
\* Related tables

\* variant: the lookup is not capped
Limit_unbounded(rows, n) == rows

\* LIMIT n: the first n rows the server produced
Limit(rows, n) == SubSeq(rows, 1, IF Len(rows) < n THEN Len(rows) ELSE n)

\* related_tables_dict after the loop: per table the incoming rows followed
\* by the outgoing rows, each lookup capped at n
RelatedDict(table_list, n) ==
    [t \in Range(table_list) |-> Limit(incoming[t], n) \o Limit(outgoing[t], n)]

\* related_tables_list before de-duplication (dict order: first occurrence)
RECURSIVE Flatten(_, _, _)
Flatten(table_list, d, seen) ==
    IF table_list = <<>> THEN <<>>
    ELSE IF Head(table_list) \in seen THEN Flatten(Tail(table_list), d, seen)
    ELSE d[Head(table_list)] \o Flatten(Tail(table_list), d, seen \cup {Head(table_list)})

\* list(set(related_tables_list)): one of the orders the set may iterate in
Dedup(related_tables_list) == Orderings(Range(related_tables_list))

get_related_tables(table_list, n) ==
    /\ Running
    /\ IF table_list # <<>> /\ ExecuteError # "ok"
         THEN Record("get_related_tables", <<table_list, n>>, ExecuteError, <<>>)
       ELSE \E r \in Dedup(Flatten(table_list, RelatedDict(table_list, n), {})) :
               Record("get_related_tables", <<table_list, n>>, "ok", r)
    /\ UNCHANGED <<handles, driver, scoping, catalog>>

----------------------------------------------------------------------------
\* Specifications

NoRelations == [t \in NameInputs |-> <<>>]
NoColumns   == [t \in TableNames |-> <<>>]

\* the catalog the lifecycle is exercised against
FixedCatalog ==
    /\ tables = <<"b", "a">>
    /\ attrs = [t \in TableNames |->
                   IF t = "a" THEN << <<"x", "integer">>, <<"y", "numeric(10,2)">> >>
                   ELSE << <<"x", "integer">> >>]
    /\ incoming = [NoRelations EXCEPT !["a"] = <<"b", "b">>]
    /\ outgoing = [NoRelations EXCEPT !["b"] = <<"a">>]

\* calls the lifecycle is exercised with
LifecycleLists == {<<>>, <<"a">>, <<"b", "a">>}
DefaultN == 2

Init == InitManager /\ FixedCatalog

Next ==
    \/ connect_with_url
    \/ close
    \/ __enter__
    \/ BlockRaise
    \/ __exit__
    \/ \E sql \in SqlInputs : run_sql(sql)
    \/ \E table_name \in {"a", "c"} : get_table_definition(table_name)
    \/ get_all_table_names
    \/ get_table_definitions_for_prompt
    \/ get_table_definition_map_for_embeddings
    \/ \E table_list \in LifecycleLists : get_related_tables(table_list, DefaultN)

Spec == Init /\ [][Next]_vars

\* the manager after construction and one successful connect_with_url
InitConnected ==
    /\ conn = 1
    /\ cur = 1
    /\ connOpen = <<TRUE>>
    /\ curOpen = <<TRUE>>
    /\ curConn = <<1>>
    /\ scope = "out"
    /\ raised = "none"
    /\ observed = "none"
    /\ lastOp = "connect_with_url"
    /\ prevOp = "__init__"
    /\ args = <<>>
    /\ outcome = "ok"
    /\ result = <<>>

\* catalogs of foreign tables: distinct names in any server order, each with
\* up to MaxCols columns of distinct names
ColumnLists == {cs \in SeqsUpTo(ColNames \X ColTypes, MaxCols) :
                   \A i, j \in 1..Len(cs) : cs[i][1] = cs[j][1] => i = j}

InitDef ==
    /\ InitConnected
    /\ tables \in {s \in SeqsUpTo(TableNames, Cardinality(TableNames)) : Distinct(s)}
    /\ attrs \in {f \in [TableNames -> ColumnLists] :
                     \A t \in TableNames \ Range(tables) : f[t] = <<>>}
    /\ incoming = NoRelations
    /\ outgoing = NoRelations

NextDef ==
    \/ \E table_name \in NameInputs : get_table_definition(table_name)
    \/ get_all_table_names
    \/ get_table_definitions_for_prompt
    \/ get_table_definition_map_for_embeddings

SpecDef == InitDef /\ [][NextDef]_vars

\* constraint catalogs: up to MaxRel constraint rows in the order the server
\* produces them, each matching the incoming or the outgoing lookup of one
\* table and naming one foreign table
ConstraintRows == SeqsUpTo({"in", "out"} \X TableNames \X TableNames, MaxRel)

RECURSIVE Matching(_, _, _)
Matching(rows, direction, t) ==
    IF rows = <<>> THEN <<>>
    ELSE (IF Head(rows)[1] = direction /\ Head(rows)[2] = t THEN <<Head(rows)[3]>> ELSE <<>>)
         \o Matching(Tail(rows), direction, t)

InitRel ==
    /\ InitConnected
    /\ tables = <<"a", "b">>
    /\ attrs = NoColumns
    /\ \E rows \in ConstraintRows :
          /\ incoming = [t \in NameInputs |-> Matching(rows, "in", t)]
          /\ outgoing = [t \in NameInputs |-> Matching(rows, "out", t)]

NextRel ==
    \E table_list \in SeqsUpTo(TableNames, MaxList), n \in 0..MaxN :
        get_related_tables(table_list, n)

SpecRel == InitRel /\ [][NextRel]_vars

----------------------------------------------------------------------------
\* Properties

QueryOps == {"run_sql", "get_table_definition", "get_all_table_names",
             "get_table_definitions_for_prompt",
             "get_table_definition_map_for_embeddings", "get_related_tables"}

\* a step of one of the query-issuing operations
QueryStep ==
    \/ \E sql \in SqlInputs : run_sql(sql)
    \/ \E table_name \in NameInputs : get_table_definition(table_name)
    \/ get_all_table_names
    \/ get_table_definitions_for_prompt
    \/ get_table_definition_map_for_embeddings
    \/ \E table_list \in SeqsUpTo(NameInputs, MaxList), n \in 0..MaxN :
          get_related_tables(table_list, n)

OpenConns == {k \in 1..Len(connOpen) : connOpen[k]}
OpenCursors == {k \in 1..Len(curOpen) : curOpen[k]}

\* the cursor and the connection the manager holds are closed
HeldReleased ==
    /\ cur # None => ~curOpen[cur]
    /\ conn # None => ~connOpen[conn]

\* C1: after __exit__ of a with-block on a connected manager the cursor and
\* the connection the manager holds are both closed, and the caller observes
\* exactly the error the block raised (none when it returned normally).
C1_ExitReleasesAndPropagates ==
    (lastOp = "__exit__" /\ cur # None) =>
        /\ conn # None
        /\ ~curOpen[cur]
        /\ ~connOpen[conn]
        /\ observed = args[1]

C1_Witness ==
    /\ lastOp = "__exit__"
    /\ cur # None
    /\ conn # None
    /\ args[1] = "BlockError"
    /\ observed = "BlockError"
    /\ ~connOpen[conn]

\* C2: close never raises; on a manager that was never connected it changes
\* nothing, and a close directly after a close changes nothing either.
C2_CloseIdempotent ==
    [][close =>
          /\ outcome' = "ok"
          /\ (conn = None /\ cur = None) => UNCHANGED <<handles, driver>>
          /\ lastOp = "close" => UNCHANGED <<handles, driver>>]_vars

C2_Witness ==
    /\ lastOp = "close"
    /\ prevOp = "close"
    /\ outcome = "ok"
    /\ cur # None
    /\ conn # None
    /\ HeldReleased

\* C3 (as claimed): the two handles are both absent or both present, and the
\* cursor is not open unless the connection is.
C3_HandlesPaired ==
    /\ conn = None <=> cur = None
    /\ (cur # None /\ CursorValid(cur)) => (conn # None /\ connOpen[conn])

\* C4 (as claimed): created unopened, opened by a successful connect, and
\* after close released and back to unopened: a manager that a successful
\* connect had opened has both handles absent again.
C4_CloseReturnsToUnopened ==
    /\ lastOp = "__init__" => (conn = None /\ cur = None)
    /\ (lastOp = "connect_with_url" /\ outcome = "ok") =>
          (conn # None /\ cur # None /\ connOpen[conn] /\ CursorValid(cur))
    /\ lastOp = "close" => HeldReleased
    /\ (lastOp = "close" /\ cur # None /\ curConn[cur] = conn) => (conn = None /\ cur = None)

\* C4 (amended): created with both handles absent; a successful connect
\* leaves both present and open, the cursor made from the connection; close
\* keeps both handles as they are and leaves what they name closed.
C4_Lifecycle ==
    /\ conn = None /\ cur = None
    /\ [][/\ (connect_with_url /\ outcome' = "ok") =>
               /\ conn' # None /\ cur' # None
               /\ connOpen'[conn'] /\ curOpen'[cur']
               /\ curConn'[cur'] = conn'
          /\ close => (conn' = conn /\ cur' = cur /\ HeldReleased')]_vars

C4_Witness ==
    /\ lastOp = "close"
    /\ prevOp = "connect_with_url"
    /\ conn # None
    /\ cur # None
    /\ curConn[cur] = conn
    /\ HeldReleased

\* C5 (as claimed): at most one connection and one cursor opened by the
\* manager are open at any time, and none is open after close.
C5_OneConnection ==
    /\ Cardinality(OpenConns) <= 1
    /\ Cardinality(OpenCursors) <= 1
    /\ lastOp = "close" => (OpenConns = {} /\ OpenCursors = {})

\* C6 (as claimed): a query-issuing operation run while the cursor is absent
\* raises, returns nothing and leaves both handles absent.
C6_QueryWithoutCursorFails ==
    (lastOp \in QueryOps /\ cur = None) => (outcome # "ok" /\ conn = None)

\* C6 (amended): a query-issuing operation run while the cursor is absent
\* leaves both handles as they were, and raises without returning a result,
\* except get_related_tables with an empty table list, which issues no query
\* and returns the empty list.
C6_QueryWithoutCursor ==
    [][(QueryStep /\ cur = None) =>
          /\ conn' = conn
          /\ cur' = None
          /\ result' = <<>>
          /\ IF lastOp' = "get_related_tables" /\ args'[1] = <<>>
               THEN outcome' = "ok"
               ELSE outcome' = "AttributeError"]_vars

C6_Witness ==
    /\ lastOp = "get_related_tables"
    /\ args[1] # <<>>
    /\ cur = None
    /\ outcome = "AttributeError"

\* C7: the names get_related_tables returns are exactly those among the first
\* n incoming and the first n outgoing rows of each table listed, each name
\* once, so at most 2n names per listed table.
C7_RelatedTables ==
    (lastOp = "get_related_tables" /\ outcome = "ok") =>
        LET table_list == args[1]
            n == args[2]
            In(t) == {incoming[t][i] : i \in {j \in 1..Len(incoming[t]) : j <= n}}
            Out(t) == {outgoing[t][i] : i \in {j \in 1..Len(outgoing[t]) : j <= n}}
        IN  /\ Distinct(result)
            /\ Range(result) = UNION {In(t) \cup Out(t) : t \in Range(table_list)}
            /\ Len(result) <= 2 * n * Cardinality(Range(table_list))

C7_Witness ==
    /\ lastOp = "get_related_tables"
    /\ outcome = "ok"
    /\ ~Distinct(args[1])
    /\ args[2] = 2
    /\ \E t \in Range(args[1]) :
          /\ Len(incoming[t]) > 2
          /\ incoming[t][1] = incoming[t][2]
    /\ Len(result) = 1

\* C8: with at least one introspected row the definition is the header
\* CREATE TABLE <name> ( and a newline, one line <column_name> <column_type>
\* per row in order, a comma and a newline after every line but the last,
\* then a newline and ); so that no comma stands before the closing part.
C8_DefinitionShape ==
    (lastOp = "get_table_definition" /\ outcome = "ok") =>
        LET rows == DefinitionRows(args[1])
            k == Len(rows)
            at(i) == 4 + 5 * (i - 1)
        IN  k > 0 =>
              /\ Len(result) = 5 * k + 4
              /\ SubSeq(result, 1, 4) = <<"CREATE TABLE ", args[1], " (", "\n">>
              /\ \A i \in 1..k :
                    /\ result[at(i) + 1] = rows[i][3]
                    /\ result[at(i) + 2] = " "
                    /\ result[at(i) + 3] = rows[i][4]
                    /\ i < k => (result[at(i) + 4] = "," /\ result[at(i) + 5] = "\n")
              /\ SubSeq(result, Len(result) - 1, Len(result)) = <<"\n", ");">>
              /\ result[Len(result) - 2] \notin {",", "\n"}

C8_Witness ==
    /\ lastOp = "get_table_definition"
    /\ outcome = "ok"
    /\ Len(DefinitionRows(args[1])) >= 2
    /\ result[Len(result) - 2] = "numeric(10,2)"

\* C9: the prompt text is the definitions of the names of get_all_table_names
\* in that order, consecutive definitions separated by exactly two newlines
\* (one blank line), and is empty when there is no table.
C9_PromptIsJoinedDefinitions ==
    (lastOp = "get_table_definitions_for_prompt" /\ outcome = "ok") =>
        LET defs == Definitions(tables)
            m == Len(defs)
            off[i \in 1..(m + 1)] == IF i = 1 THEN 0 ELSE off[i - 1] + Len(defs[i - 1]) + 2
        IN  /\ m = 0 => result = <<>>
            /\ m > 0 => Len(result) = off[m + 1] - 2
            /\ \A i \in 1..m :
                  /\ SubSeq(result, off[i] + 1, off[i] + Len(defs[i])) = defs[i]
                  /\ i < m => /\ result[off[i + 1] - 1] = "\n"
                              /\ result[off[i + 1]] = "\n"

C9_Witness ==
    /\ lastOp = "get_table_definitions_for_prompt"
    /\ outcome = "ok"
    /\ Len(tables) = 2
    /\ tables[1] = "b"
    /\ \A t \in TableNames : attrs[t] # <<>>

\* every column of every foreign table of the catalog, by table name and attnum
AllColumns ==
    Concat([i \in 1..Len(NameOrder) |->
               IF NameOrder[i] \in Range(tables) THEN attrs[NameOrder[i]] ELSE <<>>])

\* C10: whatever name is passed, the definition lists one line per column of
\* every foreign table of the catalog, in catalog order; only the header
\* carries the name, so two names give the same column lines.
C10_DefinitionIgnoresName ==
    (lastOp = "get_table_definition" /\ outcome = "ok") =>
        LET k == Len(AllColumns)
            body == SubSeq(result, 5, Len(result))
            lines == [i \in 1..k |-> <<AllColumns[i][1], " ", AllColumns[i][2]>>]
        IN  /\ SubSeq(result, 1, 3) = <<"CREATE TABLE ", args[1], " (">>
            /\ result[Len(result)] = ");"
            /\ {i \in 1..Len(body) : body[i] = " "} = {5 * (i - 1) + 2 : i \in 1..k}
            /\ \A i \in 1..k : SubSeq(body, 5 * (i - 1) + 1, 5 * (i - 1) + 3) = lines[i]

C10_Witness ==
    /\ lastOp = "get_table_definition"
    /\ outcome = "ok"
    /\ args[1] = "c"
    /\ Len(tables) = 2
    /\ \A t \in TableNames : attrs[t] # <<>>
    /\ Len(result) > 5

====
